---------------------------- MODULE Spec2Model ----------------------------
(***************************************************************************)
(* A model of server/guiserver/utils.py of the Juju GUI server:            *)
(*   - get_juju_api_url: the path-to-URL translation (Spec);               *)
(*   - wrap_write_message: the weak-reference guarded writer (SpecWrite);  *)
(*   - json_decode_dict: the JSON decoder returning dicts only (SpecJson). *)
(*                                                                         *)
(* Python strings are sequences of one-character strings.  A compiled      *)
(* regular expression is the sequence of its atoms: a one-character atom   *)
(* or one of the three named groups that str.replace puts in the pattern.  *)
(* The source templates of the model hold no regular expression            *)
(* metacharacter other than "$", and the paths hold no newline.            *)
(***************************************************************************)
EXTENDS Naturals, Sequences, FiniteSets, TLC

VARIABLES
    \* get_juju_api_url: the arguments, the locals and the outcome
    path, source_template, target_template, default,
    pattern, match, result, pc,
    \* wrap_write_message: the handler and what the wrapped function did
    handler_alive, connected, written, warnings, calls,
    \* json_decode_dict: the argument, the outcome and the log
    message, decoded, jlog, jpc

urlVars == <<path, source_template, target_template, default,
             pattern, match, result, pc>>
writeVars == <<handler_alive, connected, written, warnings, calls>>
jsonVars == <<message, decoded, jlog, jpc>>
vars == <<urlVars, writeVars, jsonVars>>

---------------------------------------------------------------------------
(* Strings *)

Digits == {"0", "1", "2", "3", "4", "5", "6", "7", "8", "9"}

RECURSIVE Flatten(_)
Flatten(ss) == IF ss = <<>> THEN <<>> ELSE Head(ss) \o Flatten(Tail(ss))

\* s[i+1 .. i+Len(t)] = t  (i is a 0-based offset, as in Python)
StartsWithAt(s, i, t) ==
    /\ i + Len(t) <= Len(s)
    /\ \A k \in 1..Len(t) : s[i + k] = t[k]

Contains(s, t) == \E i \in 0..Len(s) : StartsWithAt(s, i, t)

\* Sequences over alphabet A of length at most n.
SeqsUpTo(A, n) == UNION {[1..k -> A] : k \in 0..n}

---------------------------------------------------------------------------
(* get_juju_api_url: pattern = source_template.replace(...)...            *)

ServerGroup == "(?P<server>.*)"
PortGroup == "(?P<port>\\d+)"
UuidGroup == "(?P<uuid>.*)"
Groups == {ServerGroup, PortGroup, UuidGroup}

NameServer == <<"s", "e", "r", "v", "e", "r">>
NamePort == <<"p", "o", "r", "t">>
NameUuid == <<"u", "u", "i", "d">>

GroupName(atom) ==
    CASE atom = ServerGroup -> NameServer
      [] atom = PortGroup -> NamePort
      [] atom = UuidGroup -> NameUuid

\* str.replace(old, new): every non-overlapping occurrence, left to right.
\* new is a sequence of pattern atoms.
RECURSIVE ReplaceFrom(_, _, _, _)
ReplaceFrom(s, i, old, new) ==
    IF i >= Len(s) THEN <<>>
    ELSE IF StartsWithAt(s, i, old)
         THEN new \o ReplaceFrom(s, i + Len(old), old, new)
         ELSE <<s[i + 1]>> \o ReplaceFrom(s, i + 1, old, new)

Replace(s, old, new) == ReplaceFrom(s, 0, old, new)

Pattern(template) ==
    Replace(Replace(Replace(template,
        <<"$", "s", "e", "r", "v", "e", "r">>, <<ServerGroup>>),
        <<"$", "p", "o", "r", "t">>, <<PortGroup>>),
        <<"$", "u", "u", "i", "d">>, <<UuidGroup>>)

---------------------------------------------------------------------------
(* re.search(pattern, path) *)

NoSpans == <<>>
NoMatch == [ok |-> FALSE, start |-> 0, end |-> 0, spans |-> NoSpans]

\* re.compile refuses a group name defined twice.
Compiles(pat) ==
    \A i, j \in 1..Len(pat) : (pat[i] \in Groups /\ pat[i] = pat[j]) => i = j

\* The number of digits of s from offset pos on.
RECURSIVE DigitRun(_, _)
DigitRun(s, pos) ==
    IF pos < Len(s) /\ s[pos + 1] \in Digits THEN 1 + DigitRun(s, pos + 1)
    ELSE 0

\* MinRepeat had the pattern \d* in place of \d+.
MinRepeatStar(atom) == 0

\* The least number of characters a group takes: .* none, \d+ one.
MinRepeat(atom) == IF atom = PortGroup THEN 1 ELSE 0

\* MaxRepeat had the pattern .+ in place of \d+.
MaxRepeatAny(atom, s, pos) == Len(s) - pos

\* The most characters a group can take at pos: .* to the end of the
\* string (no newline in it), \d+ the run of digits.
MaxRepeat(atom, s, pos) ==
    IF atom = PortGroup THEN DigitRun(s, pos) ELSE Len(s) - pos

RECURSIVE MatchHere(_, _, _, _)
RECURSIVE Repeat(_, _, _, _, _)

\* The counts from lo up to hi, and from hi down to lo.
RECURSIVE Ascending(_, _)
Ascending(lo, hi) == IF lo > hi THEN <<>> ELSE <<lo>> \o Ascending(lo + 1, hi)

RECURSIVE Descending(_, _)
Descending(lo, hi) == IF lo > hi THEN <<>> ELSE <<hi>> \o Descending(lo, hi - 1)

\* RepeatOrder had the groups been non-greedy, .*? and \d+?: the shortest
\* repeat is tried first.
RepeatOrderLazy(atom, s, pos) ==
    Ascending(MinRepeat(atom), MaxRepeat(atom, s, pos))

\* The numbers of characters a group tries to take at pos, in the order
\* it tries them: .* and \d+ are greedy, the longest first, giving back
\* one character at a time.
RepeatOrder(atom, s, pos) ==
    Descending(MinRepeat(atom), MaxRepeat(atom, s, pos))

\* Atom k of pat is a group, trying the counts of order from the i-th on.
Repeat(pat, k, s, pos, i) ==
    LET order == RepeatOrder(pat[k], s, pos)
    IN  IF i > Len(order) THEN NoMatch
        ELSE LET n == order[i]
                 r == MatchHere(pat, k + 1, s, pos + n)
             IN  IF r.ok
                 THEN [r EXCEPT !.spans =
                           (GroupName(pat[k]) :> <<pos, pos + n>>) @@ r.spans]
                 ELSE Repeat(pat, k, s, pos, i + 1)

\* The backtracking matcher: atoms k.. of pat against s from offset pos.
\* "$" matches at the end of the string only; any other character matches
\* itself.
MatchHere(pat, k, s, pos) ==
    IF k > Len(pat) THEN [ok |-> TRUE, start |-> 0, end |-> pos, spans |-> NoSpans]
    ELSE IF pat[k] \in Groups
         THEN Repeat(pat, k, s, pos, 1)
    ELSE IF pat[k] = "$"
         THEN IF pos = Len(s) THEN MatchHere(pat, k + 1, s, pos) ELSE NoMatch
    ELSE IF pos < Len(s) /\ s[pos + 1] = pat[k]
         THEN MatchHere(pat, k + 1, s, pos + 1)
         ELSE NoMatch

\* LastStart had re.match been called: the pattern is tried at the start
\* of the string only.
LastStartAnchored(s) == 0

\* The last offset re.search tries.
LastStart(s) == Len(s)

RECURSIVE SearchFrom(_, _, _)
SearchFrom(pat, s, i) ==
    IF i > LastStart(s) THEN NoMatch
    ELSE LET r == MatchHere(pat, 1, s, i)
         IN  IF r.ok THEN [r EXCEPT !.start = i] ELSE SearchFrom(pat, s, i + 1)

\* re.search: the match at the leftmost offset that has one, or None.
Search(pat, s) == SearchFrom(pat, s, 0)

\* GroupDict had each group been sliced from the start of the string
\* instead of the start of its span.
GroupDictFromStart(m, s) ==
    [n \in DOMAIN m.spans |-> SubSeq(s, 1, m.spans[n][2])]

\* match.groupdict()
GroupDict(m, s) ==
    [n \in DOMAIN m.spans |-> SubSeq(s, m.spans[n][1] + 1, m.spans[n][2])]

---------------------------------------------------------------------------
(* target_template.format over match.groupdict() *)

Return(v) == [kind |-> "return", value |-> v, exc |-> "none"]
Raise(e) == [kind |-> "raise", value |-> <<>>, exc |-> e]

Prepend(v, r) == IF r.kind = "return" THEN Return(v \o r.value) ELSE r

\* The offset of the first "}" of t at or after offset i, Len(t) if none.
RECURSIVE FindClose(_, _)
FindClose(t, i) ==
    IF i >= Len(t) \/ t[i + 1] = "}" THEN i ELSE FindClose(t, i + 1)

\* Lookup had a field that is not in the keyword arguments been filled
\* with the empty string.
LookupLenient(name, kwargs) ==
    IF name \in DOMAIN kwargs THEN Return(kwargs[name]) ELSE Return(<<>>)

\* The value of a replacement field.  An empty or numeric name is
\* positional, and there are no positional arguments.
Lookup(name, kwargs) ==
    IF name = <<>> \/ \A k \in 1..Len(name) : name[k] \in Digits
    THEN Raise("IndexError")
    ELSE IF name \in DOMAIN kwargs THEN Return(kwargs[name])
    ELSE Raise("KeyError")

\* str.format on templates whose fields are plain names (no ".", "[", "!"
\* or ":" in a field): "{{" and "}}" are the escaped braces, "{name}" is
\* a replacement field.
RECURSIVE FormatFrom(_, _, _)
FormatFrom(t, i, kwargs) ==
    IF i >= Len(t) THEN Return(<<>>)
    ELSE IF t[i + 1] = "{"
    THEN IF i + 1 < Len(t) /\ t[i + 2] = "{"
         THEN Prepend(<<"{">>, FormatFrom(t, i + 2, kwargs))
         ELSE LET j == FindClose(t, i + 1)
              IN  IF j >= Len(t) THEN Raise("ValueError")
                  ELSE LET v == Lookup(SubSeq(t, i + 2, j), kwargs)
                       IN  IF v.kind = "raise" THEN v
                           ELSE Prepend(v.value, FormatFrom(t, j + 1, kwargs))
    ELSE IF t[i + 1] = "}"
    THEN IF i + 1 < Len(t) /\ t[i + 2] = "}"
         THEN Prepend(<<"}">>, FormatFrom(t, i + 2, kwargs))
         ELSE Raise("ValueError")
    ELSE Prepend(<<t[i + 1]>>, FormatFrom(t, i + 1, kwargs))

\* Format had the template been returned as it is.
FormatNotApplied(t, kwargs) == Return(t)

Format(t, kwargs) == FormatFrom(t, 0, kwargs)

---------------------------------------------------------------------------
(* Python values, and JSON texts as sequences of lexemes *)

PyNone == [t |-> "NoneType", v |-> "None"]
PyStr(x) == [t |-> "str", v |-> x]
PyNum(x) == [t |-> "int", v |-> x]
PyList(items) == [t |-> "list", v |-> items]
PyDict(map) == [t |-> "dict", v |-> map]
EmptyDict == PyDict(<<>>)

\* json.dumps of a str and of an int, the values of the model.
StrLexeme(x) ==
    CASE x = "a" -> "\"a\""
      [] x = "b" -> "\"b\""
      [] x = "</" -> "\"</\""

NumLexeme(x) == CASE x = 0 -> "0" [] x = 1 -> "1"

StringLexemes == {"\"a\"", "\"b\"", "\"</\"", "\"<\\/\""}
NumberLexemes == {"0", "1"}
Literals == StringLexemes \cup NumberLexemes \cup {"null"}

\* The value of a string lexeme: "\/" is an escape of "/".
StringOf(lexeme) ==
    CASE lexeme = "\"a\"" -> "a"
      [] lexeme = "\"b\"" -> "b"
      [] lexeme = "\"</\"" -> "</"
      [] lexeme = "\"<\\/\"" -> "</"

LiteralValue(lexeme) ==
    IF lexeme \in StringLexemes THEN PyStr(StringOf(lexeme))
    ELSE IF lexeme = "0" THEN PyNum(0)
    ELSE IF lexeme = "1" THEN PyNum(1)
    ELSE PyNone

\* The keys of a dict in the order json.dumps writes them.
KeyOrder == <<"a", "b", "</">>
KeysOf(map) == SelectSeq(KeyOrder, LAMBDA k : k \in DOMAIN map)

RECURSIVE Join(_, _)
Join(texts, sep) ==
    IF texts = <<>> THEN <<>>
    ELSE IF Len(texts) = 1 THEN texts[1]
    ELSE texts[1] \o sep \o Join(Tail(texts), sep)

\* json.dumps(value)
RECURSIVE JsonDumps(_)
JsonDumps(value) ==
    CASE value.t = "NoneType" -> <<"null">>
      [] value.t = "str" -> <<StrLexeme(value.v)>>
      [] value.t = "int" -> <<NumLexeme(value.v)>>
      [] value.t = "list" ->
           <<"[">> \o Join([k \in 1..Len(value.v) |-> JsonDumps(value.v[k])],
                           <<",">>) \o <<"]">>
      [] value.t = "dict" ->
           LET keys == KeysOf(value.v)
           IN  <<"{">> \o Join([k \in 1..Len(keys) |->
                                   <<StrLexeme(keys[k]), ":">>
                                      \o JsonDumps(value.v[keys[k]])],
                               <<",">>) \o <<"}">>

\* .replace("</", "<\\/") on the text: it changes the lexeme of a string
\* that holds "</".
EscapeSlash(text) ==
    [k \in 1..Len(text) |-> IF text[k] = "\"</\"" THEN "\"<\\/\"" ELSE text[k]]

\* tornado.escape.json_encode(value)
JsonEncode(value) == EscapeSlash(JsonDumps(value))

\* json.loads: a recursive descent over the lexemes.  A parse is
\* [ok, val, next]: the value and the index after it.
ParseFail == [ok |-> FALSE, val |-> PyNone, next |-> 0]
Parsed(val, next) == [ok |-> TRUE, val |-> val, next |-> next]

At(text, i) == IF i <= Len(text) THEN text[i] ELSE "<end>"

RECURSIVE ParseValue(_, _)
RECURSIVE ParseItems(_, _, _)
RECURSIVE ParseMembers(_, _, _)

ParseValue(text, i) ==
    IF At(text, i) \in Literals THEN Parsed(LiteralValue(text[i]), i + 1)
    ELSE IF At(text, i) = "["
    THEN IF At(text, i + 1) = "]" THEN Parsed(PyList(<<>>), i + 2)
         ELSE ParseItems(text, i + 1, <<>>)
    ELSE IF At(text, i) = "{"
    THEN IF At(text, i + 1) = "}" THEN Parsed(EmptyDict, i + 2)
         ELSE ParseMembers(text, i + 1, <<>>)
    ELSE ParseFail

ParseItems(text, i, items) ==
    LET r == ParseValue(text, i)
    IN  IF ~r.ok THEN ParseFail
        ELSE IF At(text, r.next) = ","
             THEN ParseItems(text, r.next + 1, Append(items, r.val))
        ELSE IF At(text, r.next) = "]"
             THEN Parsed(PyList(Append(items, r.val)), r.next + 1)
        ELSE ParseFail

\* A key given twice keeps its last value.
ParseMembers(text, i, map) ==
    IF At(text, i) \notin StringLexemes \/ At(text, i + 1) # ":" THEN ParseFail
    ELSE LET r == ParseValue(text, i + 2)
             m == (StringOf(text[i]) :> r.val) @@ map
         IN  IF ~r.ok THEN ParseFail
             ELSE IF At(text, r.next) = ","
                  THEN ParseMembers(text, r.next + 1, m)
             ELSE IF At(text, r.next) = "}"
                  THEN Parsed(PyDict(m), r.next + 1)
             ELSE ParseFail

\* tornado.escape.json_decode(value): the value, or ValueError when the
\* text is no JSON value or more text follows the value.
JsonDecode(text) ==
    LET r == ParseValue(text, 1)
    IN  IF r.ok /\ r.next = Len(text) + 1 THEN Parsed(r.val, r.next)
        ELSE ParseFail

---------------------------------------------------------------------------
(* json_decode_dict *)

MaxMsgLen == 3

JsonLexemes == {"{", "}", "[", "]", ":", ",", "\"a\"", "0", "null"}

ExampleMessages == {
    <<"{", "\"a\"", ":", "0", "}">>,
    <<"{", "\"a\"", ":", "{", "\"b\"", ":", "null", "}", "}">>,
    <<"{", "\"a\"", ":", "0", ",", "\"b\"", ":", "[", "1", ",", "\"a\"", "]", "}">>,
    <<"{", "\"a\"", ":", "0", ",", "\"a\"", ":", "1", "}">>,
    <<"{", "\"a\"", ":", "0", ",", "}">>,
    <<"{", "\"a\"", ":", "0", "}", "}">>,
    <<"{", "\"a\"", "0", "}">>,
    <<"{", "0", ":", "0", "}">>,
    <<"[", "{", "\"a\"", ":", "0", "}", "]">>,
    <<"[", "0", ",", "[", "]", "]">>,
    <<"\"<\\/\"">> }

Messages == SeqsUpTo(JsonLexemes, MaxMsgLen) \cup ExampleMessages

Unset == [t |-> "unset", v |-> "unset"]

\* IsMapping had lists been taken for mappings too.
IsMappingOrList(data) == data.t \in {"dict", "list"}

\* isinstance(data, collections.Mapping)
IsMapping(data) == data.t = "dict"

\* except ValueError: log a warning and return None
DecodeInvalid ==
    /\ jpc = "call"
    /\ ~JsonDecode(message).ok
    /\ jlog' = Append(jlog, "JSON decoder: message is not valid JSON")
    /\ decoded' = PyNone
    /\ jpc' = "done"
    /\ UNCHANGED <<message, urlVars, writeVars>>

\* if not isinstance(data, collections.Mapping): log a warning, return None
DecodeNotDict ==
    /\ jpc = "call"
    /\ JsonDecode(message).ok
    /\ ~IsMapping(JsonDecode(message).val)
    /\ jlog' = Append(jlog, "JSON decoder: message is not a dict")
    /\ decoded' = PyNone
    /\ jpc' = "done"
    /\ UNCHANGED <<message, urlVars, writeVars>>

\* return data
DecodeDict ==
    /\ jpc = "call"
    /\ JsonDecode(message).ok
    /\ IsMapping(JsonDecode(message).val)
    /\ decoded' = JsonDecode(message).val
    /\ jpc' = "done"
    /\ UNCHANGED <<message, jlog, urlVars, writeVars>>

---------------------------------------------------------------------------
(* wrap_write_message *)

MaxCalls == 3

Data == {
    PyNone,
    PyStr("a"),
    PyStr("</"),
    PyList(<<PyNum(0), PyStr("b")>>),
    PyDict("a" :> PyNum(1)),
    PyDict(("a" :> PyList(<<>>)) @@ ("b" :> PyDict("</" :> PyNone))) }

\* Live had handler.connected not been looked at.
LiveUnchecked(alive, conn) == alive

\* not ((handler is None) or (not handler.connected))
Live(alive, conn) == alive /\ conn

\* wrapped(data): discard the message with a warning when the handler is
\* gone or not connected, else write its JSON encoding.  calls keeps, for
\* each call, the data and what the handler was at the call.
Wrapped(data) ==
    /\ Len(calls) < MaxCalls
    /\ calls' = Append(calls, [data |-> data, alive |-> handler_alive,
                               connected |-> connected])
    /\ IF Live(handler_alive, connected)
       THEN /\ written' = Append(written, JsonEncode(data))
            /\ UNCHANGED warnings
       ELSE /\ warnings' = Append(warnings, data)
            /\ UNCHANGED written
    /\ UNCHANGED <<handler_alive, connected, urlVars, jsonVars>>

\* The connection closes: handler.connected becomes False.
Disconnect ==
    /\ handler_alive /\ connected
    /\ connected' = FALSE
    /\ UNCHANGED <<handler_alive, written, warnings, calls, urlVars, jsonVars>>

\* The handler is garbage collected: handler_ref() returns None from now on.
Collect ==
    /\ handler_alive
    /\ handler_alive' = FALSE
    /\ UNCHANGED <<connected, written, warnings, calls, urlVars, jsonVars>>

---------------------------------------------------------------------------
(* The arguments of get_juju_api_url *)

MaxPathLen == 5

PathChars == {"/", "a", "1"}

DocPath == <<"/", "w", "s", "/", "a", "p", "i", "/", "1", ".", "2", ".", "3", ".", "4", "/", "1", "7", "0", "7", "0", "/", "u", "u", "i", "d">>
DocSourceTemplate == <<"/", "a", "p", "i", "/", "$", "s", "e", "r", "v", "e", "r", "/", "$", "p", "o", "r", "t", "/", "$", "u", "u", "i", "d">>

ExamplePaths == {
    DocPath,
    <<"/", "a", "p", "i", "/", "1", "0", ".", "0", ".", "0", ".", "5", "/", "1", "7", "0", "7", "0", "/", "a", "b", "c", "d", "-", "1", "2", "3", "4">>,
    <<"/", "l", "e", "g", "a", "c", "y", "/", "p", "a", "t", "h">>,
    <<"/", "a", "p", "i", "/", "h", "o", "s", "t", "/", "n", "o", "t", "a", "p", "o", "r", "t", "/", "u", "u", "i", "d", "1">>,
    <<"/", "a", "p", "i", "/", "h", "o", "s", "t", "/", "n", "o", "t", "a", "p", "o", "r", "t", "/", "5", "/", "x">>,
    <<"/", "a", "p", "i", "/", "h", "o", "s", "t", "/", "8", "0", "x">>,
    <<"/", "a", "p", "i", "/", "h", "/", "1", "/", "2", "/", "u">>,
    <<"/", "$", "e", "n", "v", "/", "h", "/", "1", "/", "u">>,
    <<"/", "a", "p", "i", "/", "h", "/", "1", "/", "{", "u", "u", "i", "d", "}">>,
    <<"/", "a", "p", "i", "/", "h", "/", "1", "/", "$", "p", "o", "r", "t">> }

Paths == SeqsUpTo(PathChars, MaxPathLen) \cup ExamplePaths

SourceTemplates == {
    DocSourceTemplate,
    <<"/", "$", "s", "e", "r", "v", "e", "r", "/", "$", "p", "o", "r", "t", "/", "$", "u", "u", "i", "d">>,
    <<"$", "s", "e", "r", "v", "e", "r", "/", "$", "p", "o", "r", "t", "/", "$", "u", "u", "i", "d">>,
    <<"/", "$", "s", "e", "r", "v", "e", "r", "/", "$", "p", "o", "r", "t">>,
    <<"/", "$", "e", "n", "v", "/", "$", "s", "e", "r", "v", "e", "r", "/", "$", "p", "o", "r", "t", "/", "$", "u", "u", "i", "d">>,
    <<"/", "$", "s", "e", "r", "v", "e", "r", "/", "$", "s", "e", "r", "v", "e", "r">> }

\* A target template as its parts: a replacement field, or one literal
\* character.
FieldServer == "{server}"
FieldPort == "{port}"
FieldUuid == "{uuid}"
Fields == {FieldServer, FieldPort, FieldUuid}

FieldName(part) ==
    CASE part = FieldServer -> NameServer
      [] part = FieldPort -> NamePort
      [] part = FieldUuid -> NameUuid

\* The text of a part in str.format's syntax.
PartText(part) ==
    IF part \in Fields THEN <<"{">> \o FieldName(part) \o <<"}">>
    ELSE IF part = "{" THEN <<"{", "{">>
    ELSE IF part = "}" THEN <<"}", "}">>
    ELSE <<part>>

RenderParts(parts) == Flatten([k \in 1..Len(parts) |-> PartText(parts[k])])

TargetParts == {
    <<"w", "s", "s", ":", "/", "/">> \o <<FieldServer, ":", FieldPort>> \o <<"/", "e", "n", "v", "i", "r", "o", "n", "m", "e", "n", "t", "/">>
        \o <<FieldUuid>> \o <<"/", "a", "p", "i">>,
    <<"w", "s", ":", "/", "/">> \o <<FieldServer, ":", FieldPort>>,
    <<FieldUuid, "@", FieldServer>>,
    <<"w", "s", ":", "/", "/">> \o <<FieldPort, "/", "{", "u", "}">> }

TargetTemplates == {RenderParts(parts) : parts \in TargetParts}

Defaults == {<<"w", "s", "s", ":", "/", "/", "f", "a", "l", "l", "b", "a", "c", "k", ":", "1", "7", "0", "7", "0", "/", "a", "p", "i">>, <<>>}

NoResult == [kind |-> "none", value |-> <<>>, exc |-> "none"]

---------------------------------------------------------------------------
(* get_juju_api_url, one step per statement *)

\* pattern = source_template.replace(...).replace(...).replace(...)
BuildPattern ==
    /\ pc = "start"
    /\ pattern' = Pattern(source_template)
    /\ pc' = "search"
    /\ UNCHANGED <<path, source_template, target_template, default, match,
                   result, writeVars, jsonVars>>

\* match = re.search(pattern, path), the pattern compiling
SearchPath ==
    /\ pc = "search"
    /\ Compiles(pattern)
    /\ match' = Search(pattern, path)
    /\ pc' = "searched"
    /\ UNCHANGED <<path, source_template, target_template, default, pattern,
                   result, writeVars, jsonVars>>

\* match = re.search(pattern, path), re.compile raising re.error
CompileError ==
    /\ pc = "search"
    /\ ~Compiles(pattern)
    /\ result' = Raise("re.error")
    /\ pc' = "done"
    /\ UNCHANGED <<path, source_template, target_template, default, pattern,
                   match, writeVars, jsonVars>>

\* if match is None: return default
ReturnDefault ==
    /\ pc = "searched"
    /\ ~match.ok
    /\ result' = Return(default)
    /\ pc' = "done"
    /\ UNCHANGED <<path, source_template, target_template, default, pattern,
                   match, writeVars, jsonVars>>

\* return target_template.format over match.groupdict()
FormatTarget ==
    /\ pc = "searched"
    /\ match.ok
    /\ result' = Format(target_template, GroupDict(match, path))
    /\ pc' = "done"
    /\ UNCHANGED <<path, source_template, target_template, default, pattern,
                   match, writeVars, jsonVars>>

WriteIdle ==
    /\ handler_alive = TRUE
    /\ connected = TRUE
    /\ written = <<>>
    /\ warnings = <<>>
    /\ calls = <<>>

JsonIdle ==
    /\ message = <<>>
    /\ decoded = Unset
    /\ jlog = <<>>
    /\ jpc = "idle"

UrlIdle ==
    /\ path = <<>>
    /\ source_template = <<>>
    /\ target_template = <<>>
    /\ default = <<>>
    /\ pattern = <<>>
    /\ match = NoMatch
    /\ result = NoResult
    /\ pc = "idle"

Init ==
    /\ path \in Paths
    /\ source_template \in SourceTemplates
    /\ target_template \in TargetTemplates
    /\ default \in Defaults
    /\ pattern = <<>>
    /\ match = NoMatch
    /\ result = NoResult
    /\ pc = "start"
    /\ WriteIdle
    /\ JsonIdle

Next == BuildPattern \/ SearchPath \/ CompileError \/ ReturnDefault \/ FormatTarget

Spec == Init /\ [][Next]_vars

\* wrap_write_message(handler) has returned wrapped, the handler being
\* connected; calls of wrapped interleave with the handler's fate.
InitWrite == UrlIdle /\ JsonIdle /\ WriteIdle

NextWrite == (\E data \in Data : Wrapped(data)) \/ Disconnect \/ Collect

SpecWrite == InitWrite /\ [][NextWrite]_vars

InitJson ==
    /\ UrlIdle
    /\ WriteIdle
    /\ message \in Messages
    /\ decoded = Unset
    /\ jlog = <<>>
    /\ jpc = "call"

NextJson == DecodeInvalid \/ DecodeNotDict \/ DecodeDict

SpecJson == InitJson /\ [][NextJson]_vars

---------------------------------------------------------------------------
(* What a regular expression matches, stated as a relation: every way    *)
(* the atoms k.. of pat fit s from offset pos, as the spans of the        *)
(* groups.  With dollarLiteral, "$" stands for the character "$".         *)

AllDigits(text) == \A k \in 1..Len(text) : text[k] \in Digits

GroupTakes(atom, text) ==
    IF atom = PortGroup THEN text # <<>> /\ AllDigits(text) ELSE TRUE

RECURSIVE AllFits(_, _, _, _, _)
AllFits(pat, k, s, pos, dollarLiteral) ==
    IF k > Len(pat) THEN {NoSpans}
    ELSE IF pat[k] \in Groups
    THEN UNION {
           {(GroupName(pat[k]) :> <<pos, e>>) @@ f :
               f \in AllFits(pat, k + 1, s, e, dollarLiteral)} :
           e \in {x \in pos..Len(s) :
                    GroupTakes(pat[k], SubSeq(s, pos + 1, x))}}
    ELSE IF pat[k] = "$" /\ ~dollarLiteral
    THEN IF pos = Len(s) THEN AllFits(pat, k + 1, s, pos, dollarLiteral)
         ELSE {}
    ELSE IF pos < Len(s) /\ s[pos + 1] = pat[k]
         THEN AllFits(pat, k + 1, s, pos + 1, dollarLiteral)
         ELSE {}

\* The offsets of s at which pat matches.
MatchStarts(pat, s) == {i \in 0..Len(s) : AllFits(pat, 1, s, i, FALSE) # {}}

Least(S) == CHOOSE x \in S : \A y \in S : x <= y

\* The text of the path that the match captured for group n.
Captured(n) == SubSeq(path, match.spans[n][1] + 1, match.spans[n][2])

\* The parts of the target template.
PartsOf(template) == {parts \in TargetParts : RenderParts(parts) = template}

FieldsOf(parts) == {parts[k] : k \in {j \in 1..Len(parts) : parts[j] \in Fields}}

\* The template with each field replaced by the text captured for it.
Substituted(parts) ==
    Flatten([k \in 1..Len(parts) |->
        IF parts[k] \in Fields THEN Captured(FieldName(parts[k]))
        ELSE <<parts[k]>>])

\* s.split("/")
RECURSIVE SplitFrom(_, _, _)
SplitFrom(s, i, cur) ==
    IF i > Len(s) THEN <<cur>>
    ELSE IF s[i] = "/" THEN <<cur>> \o SplitFrom(s, i + 1, <<>>)
    ELSE SplitFrom(s, i + 1, Append(cur, s[i]))

Segments(s) == SplitFrom(s, 1, <<>>)

SpecTarget == <<"w", "s", "s", ":", "/", "/", "{", "s", "e", "r", "v", "e", "r", "}", ":", "{", "p", "o", "r", "t", "}", "/", "e", "n", "v", "i", "r", "o", "n", "m", "e", "n", "t", "/", "{", "u", "u", "i", "d", "}", "/", "a", "p", "i">>

---------------------------------------------------------------------------
(* Claims about get_juju_api_url *)

\* C1: when the pattern derived from the source template matches the path,
\* get_juju_api_url returns the target template with {server}, {port} and
\* {uuid} each replaced by the text of the path captured for it; the path
\* /api/10.0.0.5/17070/abcd-1234 gives
\* wss://10.0.0.5:17070/environment/abcd-1234/api.
C1_Translation ==
    (pc = "done" /\ match.ok) =>
        /\ \A parts \in PartsOf(target_template) :
             (\A f \in FieldsOf(parts) : FieldName(f) \in DOMAIN match.spans)
                => result = Return(Substituted(parts))
        /\ (/\ path = <<"/", "a", "p", "i", "/", "1", "0", ".", "0", ".", "0", ".", "5", "/", "1", "7", "0", "7", "0", "/", "a", "b", "c", "d", "-", "1", "2", "3", "4">>
            /\ source_template = DocSourceTemplate
            /\ target_template = SpecTarget)
             => result =
                  Return(<<"w", "s", "s", ":", "/", "/", "1", "0", ".", "0", ".", "0", ".", "5", ":", "1", "7", "0", "7", "0", "/", "e", "n", "v", "i", "r", "o", "n", "m", "e", "n", "t", "/", "a", "b", "c", "d", "-", "1", "2", "3", "4", "/", "a", "p", "i">>)

C1_Witness ==
    /\ pc = "done" /\ match.ok
    /\ target_template = SpecTarget
    /\ DOMAIN match.spans = {NameServer, NamePort, NameUuid}
    /\ Captured(NameServer) # <<>> /\ Captured(NameUuid) # <<>>
    /\ Len(path) <= MaxPathLen

\* C2: when the pattern derived from the source template matches the path
\* at no offset, get_juju_api_url returns the given default, unchanged,
\* and raises nothing, whatever the target template is.
C2_Default ==
    (pc = "done" /\ Compiles(pattern) /\ MatchStarts(pattern, path) = {})
        => result = Return(default)

C2_Witness ==
    /\ pc = "done" /\ Compiles(pattern) /\ MatchStarts(pattern, path) = {}
    /\ path = <<"/", "l", "e", "g", "a", "c", "y", "/", "p", "a", "t", "h">>
    /\ default = <<"w", "s", "s", ":", "/", "/", "f", "a", "l", "l", "b", "a", "c", "k", ":", "1", "7", "0", "7", "0", "/", "a", "p", "i">>
    /\ result = Return(default)

\* The segments of the source template that hold $port, by index.
PortSegments == {k \in 1..Len(Segments(source_template)) :
                    Contains(Segments(source_template)[k], <<"$", "p", "o", "r", "t">>)}

HasNonDigit(text) == \E k \in 1..Len(text) : text[k] \notin Digits

\* C3 as stated: the text captured for $port is a non-empty sequence of
\* digits, and whenever the segment of the path standing where the source
\* template puts $port holds a non-digit, the path does not match and the
\* default is returned.
C3_NonDigitSegment ==
    pc = "done" =>
        /\ (match.ok /\ NamePort \in DOMAIN match.spans)
              => (Captured(NamePort) # <<>> /\ AllDigits(Captured(NamePort)))
        /\ \A k \in PortSegments :
              (k <= Len(Segments(path)) /\ HasNonDigit(Segments(path)[k]))
                 => (~match.ok /\ result = Return(default))

\* $port is a whole segment of the source template, with a "/" before it
\* and a "/" after it, and the path has as many segments as the template.
PortDelimited(k) ==
    /\ Segments(source_template)[k] = <<"$", "p", "o", "r", "t">>
    /\ 1 < k /\ k < Len(Segments(source_template))
    /\ Len(Segments(path)) = Len(Segments(source_template))

\* C3, amended: the text captured for $port is a non-empty sequence of
\* digits; when $port is a whole segment of the source template between
\* two "/" and the path has as many segments as the template, a non-digit
\* in the path's segment at that place makes the path not match, and the
\* default is returned (/api/host/notaport/uuid1 returns the default).
C3_PortDigits ==
    pc = "done" =>
        /\ (match.ok /\ NamePort \in DOMAIN match.spans)
              => (Captured(NamePort) # <<>> /\ AllDigits(Captured(NamePort)))
        /\ \A k \in PortSegments :
              (PortDelimited(k) /\ HasNonDigit(Segments(path)[k]))
                 => (~match.ok /\ result = Return(default))
        /\ (path = <<"/", "a", "p", "i", "/", "h", "o", "s", "t", "/", "n", "o", "t", "a", "p", "o", "r", "t", "/", "u", "u", "i", "d", "1">>
              /\ source_template = DocSourceTemplate)
             => result = Return(default)

C3_Witness ==
    /\ pc = "done"
    /\ \E k \in PortSegments :
          /\ PortDelimited(k)
          /\ HasNonDigit(Segments(path)[k])
          /\ \E j \in 1..Len(Segments(path)[k]) :
                Segments(path)[k][j] \in Digits
    /\ result = Return(default)

\* The ways the pattern fits the path at the offset of the match.
FitsAtMatch == AllFits(pattern, 1, path, match.start, FALSE)

SpanLen(span) == span[2] - span[1]

\* C4 as stated: $server captures non-greedily, the shortest text that
\* lets the whole pattern match, and then $uuid the shortest.
C4_ShortestFirst ==
    (pc = "done" /\ match.ok) =>
        \A f \in FitsAtMatch :
            /\ NameServer \in DOMAIN f
                  => SpanLen(match.spans[NameServer]) <= SpanLen(f[NameServer])
            /\ (NameUuid \in DOMAIN f /\ NameServer \in DOMAIN f
                   /\ f[NameServer] = match.spans[NameServer])
                  => SpanLen(match.spans[NameUuid]) <= SpanLen(f[NameUuid])

\* The group names of the pattern, in the order of the pattern.
GroupOrder == SelectSeq(pattern, LAMBDA a : a \in Groups)

\* C4, amended: the placeholders capture greedily: of the ways the pattern
\* fits the path at the offset of the match, the match is the one in which
\* each placeholder, taken in the order of the template, captures the
\* longest text the ones before it allow.
C4_LongestFirst ==
    (pc = "done" /\ match.ok) =>
        /\ match.spans \in FitsAtMatch
        /\ \A f \in FitsAtMatch : \A k \in 1..Len(GroupOrder) :
              (\A j \in 1..(k - 1) :
                  f[GroupName(GroupOrder[j])]
                     = match.spans[GroupName(GroupOrder[j])])
              => SpanLen(match.spans[GroupName(GroupOrder[k])])
                    >= SpanLen(f[GroupName(GroupOrder[k])])

C4_Witness ==
    /\ pc = "done" /\ match.ok
    /\ \E f \in FitsAtMatch :
          /\ NameServer \in DOMAIN f
          /\ SpanLen(f[NameServer]) < SpanLen(match.spans[NameServer])
    /\ \E f \in FitsAtMatch :
          /\ NameUuid \in DOMAIN f
          /\ SpanLen(f[NameUuid]) < SpanLen(match.spans[NameUuid])

\* C5: when the path matches and the target template names a placeholder
\* that the source template did not capture, get_juju_api_url raises
\* (KeyError); it returns no URL.
C5_MissingPlaceholder ==
    (pc = "done" /\ match.ok) =>
        \A parts \in PartsOf(target_template) :
            (\E f \in FieldsOf(parts) : FieldName(f) \notin DOMAIN match.spans)
               => result = Raise("KeyError")

C5_Witness ==
    /\ pc = "done" /\ match.ok
    /\ source_template = <<"/", "$", "s", "e", "r", "v", "e", "r", "/", "$", "p", "o", "r", "t">>
    /\ target_template = SpecTarget
    /\ result.kind = "raise"

\* C6: a $-prefixed token of the source template other than $server, $port
\* and $uuid is literal text: a path that holds the token's text at that
\* place (and fits the rest of the template) matches, and is translated
\* rather than answered with the default.
C6_DollarTokenLiteral ==
    (pc = "done" /\ Compiles(pattern)) =>
        ((\E i \in 0..Len(path) : AllFits(pattern, 1, path, i, TRUE) # {})
            => (match.ok /\ result # Return(default)))

\* C7: the pattern is searched for anywhere in the path: a path that the
\* pattern fits at some offset matches, at the least such offset, and no
\* captured text begins before that offset; /ws/api/1.2.3.4/17070/uuid
\* matches /api/$server/$port/$uuid.
C7_SearchAnywhere ==
    (pc = "done" /\ Compiles(pattern)) =>
        /\ MatchStarts(pattern, path) # {} =>
              /\ match.ok
              /\ match.start = Least(MatchStarts(pattern, path))
              /\ match.spans \in FitsAtMatch
              /\ \A n \in DOMAIN match.spans : match.spans[n][1] >= match.start
        /\ (path = DocPath /\ source_template = DocSourceTemplate
               /\ target_template = SpecTarget)
             => result = Return(<<"w", "s", "s", ":", "/", "/", "1", ".", "2", ".", "3", ".", "4", ":", "1", "7", "0", "7", "0", "/", "e", "n", "v", "i", "r", "o", "n", "m", "e", "n", "t", "/", "u", "u", "i", "d", "/", "a", "p", "i">>)

C7_Witness ==
    /\ pc = "done" /\ match.ok
    /\ match.start > 0
    /\ DOMAIN match.spans # {}
    /\ result.kind = "return"
    /\ Len(path) <= MaxPathLen

PlaceholderTokens ==
    {<<"{", "s", "e", "r", "v", "e", "r", "}">>, <<"{", "p", "o", "r", "t", "}">>, <<"{", "u", "u", "i", "d", "}">>, <<"$", "s", "e", "r", "v", "e", "r">>, <<"$", "p", "o", "r", "t">>, <<"$", "u", "u", "i", "d">>}

\* C8 as stated: a computed translation holds no placeholder token.
C8_NoPlaceholderToken ==
    (pc = "done" /\ match.ok /\ result.kind = "return") =>
        \A tok \in PlaceholderTokens : ~Contains(result.value, tok)

TokenChars == {"{", "}", "$"}

HasTokenChar(text) == \E k \in 1..Len(text) : text[k] \in TokenChars

\* C8, amended: in a computed translation every replacement field of the
\* target template has been replaced: when neither the path nor the
\* literal text of the target template holds "{", "}" or "$", the returned
\* URL holds none of them, so no placeholder token.
C8_NoFieldLeft ==
    (pc = "done" /\ match.ok /\ result.kind = "return") =>
        \A parts \in PartsOf(target_template) :
            (~HasTokenChar(path) /\ ~HasTokenChar(parts))
               => (/\ ~HasTokenChar(result.value)
                   /\ \A tok \in PlaceholderTokens :
                         ~Contains(result.value, tok))

C8_Witness ==
    /\ pc = "done" /\ match.ok /\ result.kind = "return"
    /\ target_template = SpecTarget
    /\ ~HasTokenChar(path)
    /\ ~HasTokenChar(result.value)

---------------------------------------------------------------------------
(* Claims about wrap_write_message *)

IsLiveCall(c) == c.alive /\ c.connected
IsDeadCall(c) == ~(c.alive /\ c.connected)
LiveCalls == SelectSeq(calls, IsLiveCall)
DeadCalls == SelectSeq(calls, IsDeadCall)

\* C9: over any sequence of calls of wrapped interleaved with the handler
\* disconnecting or being garbage collected, write_message is invoked
\* exactly once for each call made while the handler exists and is
\* connected, in order, with the JSON encoding of the call's data (a text
\* that decodes to the data, "</" written "<\/"); every other call
\* discards its message with a warning and writes nothing.
C9_GuardedWrite ==
    /\ Len(written) = Len(LiveCalls)
    /\ \A i \in 1..Len(written) :
          /\ JsonDecode(written[i])
                = Parsed(LiveCalls[i].data, Len(written[i]) + 1)
          /\ LiveCalls[i].data = PyStr("</") => written[i] = <<"\"<\\/\"">>
    /\ warnings = [i \in 1..Len(DeadCalls) |-> DeadCalls[i].data]

C9_Witness ==
    /\ Len(calls) = 3
    /\ IsLiveCall(calls[1]) /\ calls[1].data.t = "dict"
    /\ calls[2].alive /\ ~calls[2].connected
    /\ ~calls[3].alive
    /\ Len(written) = 1 /\ Len(warnings) = 2

---------------------------------------------------------------------------
(* JSON as a grammar over the lexemes: text[i .. j-1] is a value, a list  *)
(* of items, a member, a list of members; and the value it denotes.       *)

RECURSIVE IsValue(_, _, _)
RECURSIVE IsItems(_, _, _)
RECURSIVE IsMembers(_, _, _)

IsValue(text, i, j) ==
    /\ 1 <= i /\ i < j /\ j <= Len(text) + 1
    /\ \/ j = i + 1 /\ text[i] \in Literals
       \/ /\ j >= i + 2 /\ text[i] = "[" /\ text[j - 1] = "]"
          /\ (j = i + 2 \/ IsItems(text, i + 1, j - 1))
       \/ /\ j >= i + 2 /\ text[i] = "{" /\ text[j - 1] = "}"
          /\ (j = i + 2 \/ IsMembers(text, i + 1, j - 1))

IsItems(text, i, j) ==
    \/ IsValue(text, i, j)
    \/ \E k \in (i + 1)..(j - 2) :
          IsValue(text, i, k) /\ text[k] = "," /\ IsItems(text, k + 1, j)

IsMember(text, i, j) ==
    /\ j >= i + 3
    /\ text[i] \in StringLexemes /\ text[i + 1] = ":"
    /\ IsValue(text, i + 2, j)

IsMembers(text, i, j) ==
    \/ IsMember(text, i, j)
    \/ \E k \in (i + 3)..(j - 4) :
          IsMember(text, i, k) /\ text[k] = "," /\ IsMembers(text, k + 1, j)

RECURSIVE ValueOf(_, _, _)
RECURSIVE ItemsOf(_, _, _)
RECURSIVE MembersOf(_, _, _)

ValueOf(text, i, j) ==
    IF text[i] \in Literals THEN LiteralValue(text[i])
    ELSE IF text[i] = "["
    THEN PyList(IF j = i + 2 THEN <<>> ELSE ItemsOf(text, i + 1, j - 1))
    ELSE PyDict(IF j = i + 2 THEN <<>> ELSE MembersOf(text, i + 1, j - 1))

ItemsOf(text, i, j) ==
    IF IsValue(text, i, j) THEN <<ValueOf(text, i, j)>>
    ELSE LET k == CHOOSE k \in (i + 1)..(j - 2) :
                     IsValue(text, i, k) /\ text[k] = ","
                        /\ IsItems(text, k + 1, j)
         IN  <<ValueOf(text, i, k)>> \o ItemsOf(text, k + 1, j)

\* Of two members with the same key the later one stands.
MembersOf(text, i, j) ==
    IF IsMember(text, i, j) THEN StringOf(text[i]) :> ValueOf(text, i + 2, j)
    ELSE LET k == CHOOSE k \in (i + 3)..(j - 4) :
                     IsMember(text, i, k) /\ text[k] = ","
                        /\ IsMembers(text, k + 1, j)
         IN  MembersOf(text, k + 1, j)
                @@ (StringOf(text[i]) :> ValueOf(text, i + 2, k))

ValidJson(text) == IsValue(text, 1, Len(text) + 1)
IsObject(text) == ValidJson(text) /\ text[1] = "{"

---------------------------------------------------------------------------
(* Claims about json_decode_dict *)

\* C10: json_decode_dict returns the decoded mapping if and only if the
\* message is valid JSON whose top-level value is an object; for a message
\* that is not valid JSON and for valid JSON of any other shape (list,
\* string, number, null) it returns None, the same value in both cases
\* (only the logged warning differs).
C10_DictOrNone ==
    jpc = "done" =>
        /\ IsObject(message)
              => (decoded = ValueOf(message, 1, Len(message) + 1)
                    /\ decoded.t = "dict" /\ jlog = <<>>)
        /\ ~ValidJson(message)
              => (decoded = PyNone
                    /\ jlog = <<"JSON decoder: message is not valid JSON">>)
        /\ (ValidJson(message) /\ ~IsObject(message))
              => (decoded = PyNone
                    /\ jlog = <<"JSON decoder: message is not a dict">>)

C10_Witness ==
    /\ jpc = "done"
    /\ decoded = PyDict(("a" :> PyNum(0))
                           @@ ("b" :> PyList(<<PyNum(1), PyStr("a")>>)))

===========================================================================
